---- MODULE Spec2Model ----
(***************************************************************************)
(* A model of the NestedText parser of src/src/nestedtext.py.              *)
(*                                                                         *)
(* Text is a sequence of one-character strings.  A value tree node is a    *)
(* record [t, v, k]: t is the Python type of the node, v its characters    *)
(* (str) or its elements (list) or its values in key order (dict), and k   *)
(* the keys of a dict in insertion order.                                  *)
(***************************************************************************)
EXTENDS Integers, Sequences, FiniteSets, TLC

(***************************************************************************)
(* Python str helpers                                                      *)
(***************************************************************************)

\* The characters str.strip() / str.lstrip() / regex \s treat as whitespace.
Whitespace == {" ", "\t", "\n", "\r"}

\* The characters of the argument of rstrip("\r\n").
EolChars == {"\r", "\n"}

\* s[n:] with n counted from 0, as a Python slice (never raises).
Drop(s, n) == SubSeq(s, n + 1, Len(s))

\* s[:n], as a Python slice (never raises)
Take(s, n) == SubSeq(s, 1, IF n < Len(s) THEN n ELSE Len(s))

\* Number of leading characters of s that belong to cs.
LeadIn(s, cs) ==
    IF \A i \in 1..Len(s) : s[i] \in cs
    THEN Len(s)
    ELSE (CHOOSE i \in 1..Len(s) :
             s[i] \notin cs /\ \A j \in 1..(i - 1) : s[j] \in cs) - 1

\* Number of trailing characters of s that belong to cs.
TrailIn(s, cs) ==
    IF \A i \in 1..Len(s) : s[i] \in cs
    THEN Len(s)
    ELSE Len(s) - (CHOOSE i \in 1..Len(s) :
             s[i] \notin cs /\ \A j \in (i + 1)..Len(s) : s[j] \in cs)

\* s.lstrip(cs), s.rstrip(cs), s.strip(cs)
LStripSet(s, cs) == Drop(s, LeadIn(s, cs))
RStripSet(s, cs) == Take(s, Len(s) - TrailIn(s, cs))
StripSet(s, cs) == RStripSet(LStripSet(s, cs), cs)

\* s.startswith(p)
StartsWith(s, p) == Len(s) >= Len(p) /\ Take(s, Len(p)) = p

\* "p in s" for strings
Contains(s, p) ==
    \E i \in 0..(Len(s) - Len(p)) : SubSeq(s, i + 1, i + Len(p)) = p

\* "".join(parts)
RECURSIVE Join(_)
Join(parts) ==
    IF parts = <<>> THEN <<>> ELSE Head(parts) \o Join(Tail(parts))

(***************************************************************************)
(* Optional[str]                                                           *)
(***************************************************************************)
None == [some |-> FALSE, s |-> <<>>]
Some(s) == [some |-> TRUE, s |-> s]

\* Python truthiness of an Optional[str]: None and "" are falsy.
Truthy(o) == o.some /\ o.s # <<>>

\* "x or None"
OrNone(s) == IF s = <<>> THEN None ELSE Some(s)

(***************************************************************************)
(* Line classifier: _LinesIter._read_line                                  *)
(***************************************************************************)

\* An is_ignorable that forgets the comments.
is_ignorable_blank_only(kind) == kind = "BLANK"

\* _LineType.is_ignorable
is_ignorable(kind) == kind \in {"BLANK", "COMMENT"}

\* _Line(text, lineno, kind, depth, value).  For an OBJECT_ITEM the value
\* of the code is the tuple (key, value): the fields key and value here.
Line(text, lineno, kind, depth, key, value) ==
    [cls |-> "_Line", text |-> text, lineno |-> lineno, kind |-> kind,
     depth |-> depth, key |-> key, value |-> value, colno |-> 0]

\* _InvalidLine(text, lineno, kind, colno)
InvalidLine(text, lineno, kind, colno) ==
    [cls |-> "_InvalidLine", text |-> text, lineno |-> lineno, kind |-> kind,
     depth |-> 0, key |-> <<>>, value |-> None, colno |-> colno]

\* A substitution that removes the sigil and every space after it.
SubSigilAllSpaces(s) == LStripSet(Drop(s, 1), {" "})

\* re.sub(sigil + " ?", "", s, count=1) for an s that starts with the sigil:
\* the sigil and at most one space after it are removed.
SubSigil(s) ==
    IF Len(s) >= 2 /\ s[2] = " " THEN Drop(s, 2) ELSE Drop(s, 1)

\* Whether the key group of r"(?P<key>.+?)\s*:(?: (?P<value>.*))?" can be the
\* first k characters of s in a full match: "." does not match a newline,
\* \s* can only stop in front of the ":" at the end of the whitespace run.
KeyMatches(s, k) ==
    LET m == k + LeadIn(Drop(s, k), Whitespace)
    IN  /\ \A i \in 1..k : s[i] # "\n"
        /\ m + 1 <= Len(s)
        /\ s[m + 1] = ":"
        /\ \/ m + 1 = Len(s)
           \/ /\ s[m + 2] = " "
              /\ \A j \in (m + 3)..Len(s) : s[j] # "\n"

\* A match of the object item pattern with a greedy key group: the longest
\* key.
ObjectItemMatchGreedy(s) ==
    IF \E k \in 1..Len(s) : KeyMatches(s, k)
    THEN LET k == CHOOSE k \in 1..Len(s) :
                      KeyMatches(s, k) /\ \A j \in (k + 1)..Len(s) : ~KeyMatches(s, j)
             m == k + LeadIn(Drop(s, k), Whitespace)
         IN  [matched |-> TRUE,
              key |-> Take(s, k),
              value |-> IF m + 1 = Len(s) THEN None ELSE Some(Drop(s, m + 2))]
    ELSE [matched |-> FALSE, key |-> <<>>, value |-> None]

\* re.fullmatch of the object item pattern: the lazy key group takes the
\* shortest key that lets the rest match.  matched = FALSE is "no match".
ObjectItemMatch(s) ==
    IF \E k \in 1..Len(s) : KeyMatches(s, k)
    THEN LET k == CHOOSE k \in 1..Len(s) :
                      KeyMatches(s, k) /\ \A j \in 1..(k - 1) : ~KeyMatches(s, j)
             m == k + LeadIn(Drop(s, k), Whitespace)
         IN  [matched |-> TRUE,
              key |-> Take(s, k),
              value |-> IF m + 1 = Len(s) THEN None ELSE Some(Drop(s, m + 2))]
    ELSE [matched |-> FALSE, key |-> <<>>, value |-> None]

\* The nested function _read_content_line: kind and payload of a content
\* line, or matched = FALSE for the None it returns.
read_content_line(line, stripped) ==
    IF stripped = <<"-">> \/ StartsWith(stripped, <<"-", " ">>)
    THEN [matched |-> TRUE, kind |-> "LIST_ITEM", key |-> <<>>,
          value |-> OrNone(Drop(stripped, 2))]
    ELSE IF stripped = <<">">> \/ StartsWith(stripped, <<">", " ">>)
    THEN [matched |-> TRUE, kind |-> "STRING", key |-> <<>>,
          value |-> Some(SubSigil(LStripSet(line, {" "})))]
    ELSE IF stripped = <<":">> \/ StartsWith(stripped, <<":", " ">>)
    THEN [matched |-> TRUE, kind |-> "OBJECT_KEY", key |-> <<>>,
          value |-> Some(SubSigil(LStripSet(line, {" "})))]
    ELSE IF stripped[1] \in {"[", "{"}
    THEN [matched |-> TRUE, kind |-> "INLINE_CONTAINER", key |-> <<>>,
          value |-> Some(stripped)]
    ELSE LET match == ObjectItemMatch(stripped)
         IN  IF match.matched
             THEN [matched |-> TRUE, kind |-> "OBJECT_ITEM",
                   key |-> match.key, value |-> match.value]
             ELSE [matched |-> FALSE, kind |-> "", key |-> <<>>, value |-> None]

\* _LinesIter._read_line
read_line(line, lineno) ==
    IF StripSet(line, Whitespace) = <<>>
    THEN Line(line, lineno, "BLANK", 0, <<>>, None)
    ELSE
    LET text == RStripSet(line, EolChars)
        stripped == LStripSet(text, {" "})
        depth == Len(text) - Len(stripped)
    IN  IF LStripSet(text, Whitespace)[1] = "#"
        THEN Line(line, lineno, "COMMENT", 0, <<>>,
                  Some(Drop(LStripSet(text, Whitespace), 1)))
        ELSE IF Len(LStripSet(stripped, Whitespace)) < Len(stripped)
        THEN InvalidLine(line, lineno, "NON_SPACE_INDENT", depth)
        ELSE LET result == read_content_line(line, stripped)
             IN  IF result.matched
                 THEN Line(line, lineno, result.kind, depth, result.key,
                           result.value)
                 ELSE InvalidLine(line, lineno, "UNRECOGNISED", depth)

\* A generator that numbers the raw lines from 0.
read_lines_zero_based(lines) ==
    [i \in 1..Len(lines) |-> read_line(lines[i], i - 1)]

\* _LinesIter._read_lines: the generator's items, one per raw line.
read_lines(lines) == [i \in 1..Len(lines) |-> read_line(lines[i], i)]

(***************************************************************************)
(* Values and errors                                                       *)
(***************************************************************************)

\* The value tree nodes: str, list and dict (keys in insertion order), and
\* Python's None.
Str(s) == [t |-> "str", v |-> s, k |-> <<>>]
List(xs) == [t |-> "list", v |-> xs, k |-> <<>>]
Dict(keys, vals) == [t |-> "dict", v |-> vals, k |-> keys]
NoneVal == [t |-> "NoneType", v |-> <<>>, k |-> <<>>]

\* The lineno / colno of an exception that was given none (Python None).
NoneInt == -1

\* NestedtextError(message, lineno, colno)
NestedtextError(message, lineno, colno) ==
    [exc |-> "NestedtextError", msg |-> message, lineno |-> lineno,
     colno |-> colno]

\* An exception of a builtin type (IndexError, StopIteration, ...).
BuiltinError(exc) ==
    [exc |-> exc, msg |-> "", lineno |-> NoneInt, colno |-> NoneInt]

NoError == [exc |-> "", msg |-> "", lineno |-> NoneInt, colno |-> NoneInt]

\* _report(message, line, colno=colno)
report(message, line, colno) == NestedtextError(message, line.lineno, colno)

\* An _indentation_error that reports the column of the line's own depth.
indentation_error_own_depth(line, depth) ==
    report("invalid indentation", line, line.depth)

\* _indentation_error(line, depth)
indentation_error(line, depth) == report("invalid indentation", line, depth)

(***************************************************************************)
(* Line stream: _LinesIter.  cl is the sequence of items the generator     *)
(* _read_lines yields; a stream state st records how many of them have     *)
(* been pulled and which one is the lookahead _next_line (0 for None).     *)
(***************************************************************************)

\* What a call that may raise gives back: the exception, or the returned
\* value and the stream state it leaves.
Raise(err, st) == [raised |-> TRUE, err |-> err, val |-> NoneVal, st |-> st]
Return(val, st) == [raised |-> FALSE, err |-> NoError, val |-> val, st |-> st]

\* An advance that pulls one raw line more than the lookahead it returns.
RECURSIVE advance_read_ahead(_, _)
advance_read_ahead(cl, pulled) ==
    IF pulled = Len(cl)
    THEN Return(NoneVal, [next_line |-> 0, pulled |-> pulled])
    ELSE LET next_line == cl[pulled + 1]
         IN  IF next_line.cls = "_InvalidLine"
             THEN Raise(report("invalid line", next_line, next_line.colno),
                        [next_line |-> 0, pulled |-> pulled + 1])
             ELSE IF ~is_ignorable(next_line.kind)
             THEN Return(NoneVal,
                         [next_line |-> pulled + 1,
                          pulled |-> IF pulled + 2 <= Len(cl)
                                     THEN pulled + 2 ELSE pulled + 1])
             ELSE advance_read_ahead(cl, pulled + 1)

\* _LinesIter._advance_to_next_content_line, from a generator that has
\* yielded its first `pulled` items.
RECURSIVE advance_to_next_content_line(_, _)
advance_to_next_content_line(cl, pulled) ==
    IF pulled = Len(cl)
    THEN Return(NoneVal, [next_line |-> 0, pulled |-> pulled])
    ELSE LET next_line == cl[pulled + 1]
         IN  IF next_line.cls = "_InvalidLine"
             THEN Raise(report("invalid line", next_line, next_line.colno),
                        [next_line |-> 0, pulled |-> pulled + 1])
             ELSE IF ~is_ignorable(next_line.kind)
             THEN Return(NoneVal,
                         [next_line |-> pulled + 1, pulled |-> pulled + 1])
             ELSE advance_to_next_content_line(cl, pulled + 1)

\* _LinesIter.__init__
LinesIter(cl) == advance_to_next_content_line(cl, 0)

\* _LinesIter.peek_next: the index of the lookahead line, 0 for None.
peek_next(st) == st.next_line

\* A __next__ that returns the lookahead line without replacing it.
next_no_refill(cl, st) ==
    IF st.next_line = 0
    THEN [raised |-> TRUE, err |-> BuiltinError("StopIteration"), line |-> 0,
          st |-> st]
    ELSE [raised |-> FALSE, err |-> NoError, line |-> st.next_line, st |-> st]

\* A __next__ that advances first and returns the new lookahead line.
next_after_advance(cl, st) ==
    IF st.next_line = 0
    THEN [raised |-> TRUE, err |-> BuiltinError("StopIteration"), line |-> 0,
          st |-> st]
    ELSE LET adv == advance_to_next_content_line(cl, st.pulled)
         IN  [raised |-> adv.raised \/ adv.st.next_line = 0,
              err |-> IF adv.raised THEN adv.err
                      ELSE IF adv.st.next_line = 0
                      THEN BuiltinError("StopIteration") ELSE NoError,
              line |-> adv.st.next_line,
              st |-> adv.st]

\* _LinesIter.__next__: val is unused, the line returned is cl[line].
next(cl, st) ==
    IF st.next_line = 0
    THEN [raised |-> TRUE, err |-> BuiltinError("StopIteration"), line |-> 0,
          st |-> st]
    ELSE LET adv == advance_to_next_content_line(cl, st.pulled)
         IN  [raised |-> adv.raised, err |-> adv.err, line |-> st.next_line,
              st |-> adv.st]

(***************************************************************************)
(* Structural parser: _Parser                                              *)
(***************************************************************************)

\* The three values of DuplicateFieldBehaviour.
USE_FIRST == "use_first"
USE_LAST == "use_last"
ERROR == "error"
DuplicateFieldBehaviour == {USE_FIRST, USE_LAST, ERROR}

\* A join that strips the line terminator of every fragment.
JoinFragmentsStripAll(data) ==
    Join([i \in 1..Len(data) |-> RStripSet(data[i], EolChars)])

\* data[-1] = data[-1].rstrip("\r\n"); return "".join(data)
JoinFragments(data) ==
    Join([i \in 1..Len(data) |->
            IF i = Len(data) THEN RStripSet(data[i], EolChars) ELSE data[i]])

\* _Parser._read_string: the while loop, then the join.
RECURSIVE read_string_loop(_, _, _, _)
read_string_loop(cl, st, depth, data) ==
    IF /\ peek_next(st) # 0
       /\ cl[peek_next(st)].kind = "STRING"
       /\ cl[peek_next(st)].depth >= depth
    THEN LET n == next(cl, st)
             line == cl[n.line]
         IN  IF n.raised THEN Raise(n.err, n.st)
             ELSE IF line.depth # depth
             THEN Raise(indentation_error(line, depth), n.st)
             ELSE read_string_loop(cl, n.st, depth, Append(data, line.value.s))
    ELSE IF data = <<>> THEN Raise(BuiltinError("IndexError"), st)
    ELSE Return(Str(JoinFragments(data)), st)

read_string(cl, st, depth) == read_string_loop(cl, st, depth, <<>>)

\* _Parser._read_object_key
RECURSIVE read_object_key_loop(_, _, _, _)
read_object_key_loop(cl, st, depth, data) ==
    IF /\ peek_next(st) # 0
       /\ cl[peek_next(st)].kind = "OBJECT_KEY"
       /\ cl[peek_next(st)].depth = depth
    THEN LET n == next(cl, st)
         IN  IF n.raised THEN Raise(n.err, n.st)
             ELSE read_object_key_loop(cl, n.st, depth,
                                       Append(data, cl[n.line].value.s))
    ELSE IF data = <<>> THEN Raise(BuiltinError("IndexError"), st)
    ELSE Return(Str(JoinFragments(data)), st)

read_object_key(cl, st, depth) == read_object_key_loop(cl, st, depth, <<>>)

\* _Parser._parse_inline_list and _parse_inline_object: bodies are "pass".
parse_inline_list(text) == NoneVal
parse_inline_object(text) == NoneVal

\* _Parser._read_inline_container
read_inline_container(cl, st, depth) ==
    LET n == next(cl, st)
        line_text == cl[n.line].value.s
    IN  IF n.raised THEN Raise(n.err, n.st)
        ELSE IF cl[n.line].kind # "INLINE_CONTAINER"
        THEN Raise(BuiltinError("AssertionError"), n.st)
        ELSE IF line_text[1] = "["
        THEN Return(parse_inline_list(line_text), n.st)
        ELSE IF line_text[1] = "{"
        THEN Return(parse_inline_object(line_text), n.st)
        ELSE Raise(BuiltinError("AssertionError"), n.st)

RECURSIVE read_value(_, _, _, _)

\* A list_item_value that takes a next line at the item's own depth for the
\* item's value (>= for >).
list_item_value_same_depth(cl, on_dup, st, depth, line) ==
    IF Truthy(line.value)
    THEN Return(Str(line.value.s), st)
    ELSE IF peek_next(st) = 0
    THEN Return(Str(<<>>), st)
    ELSE LET depth_of_next == cl[peek_next(st)].depth
         IN  IF depth_of_next >= depth
             THEN read_value(cl, on_dup, st, depth_of_next)
             ELSE Return(Str(<<>>), st)

\* A list_item_value that asks the lookahead line for its depth without
\* checking that there is one.
list_item_value_unchecked_peek(cl, on_dup, st, depth, line) ==
    IF Truthy(line.value)
    THEN Return(Str(line.value.s), st)
    ELSE IF peek_next(st) = 0
    THEN Raise(BuiltinError("AttributeError"), st)
    ELSE LET depth_of_next == cl[peek_next(st)].depth
         IN  IF depth_of_next > depth
             THEN read_value(cl, on_dup, st, depth_of_next)
             ELSE Return(Str(<<>>), st)

\* _read_list lines 256-269: the element a consumed list item appends, its
\* inline value or else the empty string unless the next content line is
\* deeper.
list_item_value(cl, on_dup, st, depth, line) ==
    IF Truthy(line.value)
    THEN Return(Str(line.value.s), st)
    ELSE IF peek_next(st) = 0
    THEN Return(Str(<<>>), st)
    ELSE LET depth_of_next == cl[peek_next(st)].depth
         IN  IF depth_of_next > depth
             THEN read_value(cl, on_dup, st, depth_of_next)
             ELSE Return(Str(<<>>), st)

\* An object_item_value that gives a multiline key without a deeper value
\* the empty string, as it does an object item.
object_item_value_key_empty(cl, on_dup, st, depth, line, value) ==
    IF Truthy(value)
    THEN Return(Str(value.s), st)
    ELSE IF peek_next(st) = 0
    THEN Return(Str(<<>>), st)
    ELSE LET depth_of_next == cl[peek_next(st)].depth
         IN  IF depth_of_next > depth
             THEN read_value(cl, on_dup, st, depth_of_next)
             ELSE Return(Str(<<>>), st)

\* _read_object lines 286-302: the value of an entry whose key has been
\* read; line is the first line of the entry, value its inline value.
object_item_value(cl, on_dup, st, depth, line, value) ==
    IF Truthy(value)
    THEN Return(Str(value.s), st)
    ELSE IF peek_next(st) = 0
    THEN IF line.kind = "OBJECT_KEY"
         THEN Raise(NestedtextError("expected value after multiline object key",
                                    NoneInt, NoneInt), st)
         ELSE Return(Str(<<>>), st)
    ELSE LET depth_of_next == cl[peek_next(st)].depth
         IN  IF depth_of_next > depth
             THEN read_value(cl, on_dup, st, depth_of_next)
             ELSE IF line.kind = "OBJECT_KEY"
             THEN Raise(NestedtextError(
                            "expected value after multiline object key",
                            NoneInt, NoneInt), st)
             ELSE Return(Str(<<>>), st)

\* _Parser._read_list
RECURSIVE read_list_loop(_, _, _, _, _)
read_list_loop(cl, on_dup, st, depth, data) ==
    IF peek_next(st) # 0 /\ cl[peek_next(st)].depth >= depth
    THEN LET n == next(cl, st)
             line == cl[n.line]
         IN  IF n.raised THEN Raise(n.err, n.st)
             ELSE IF line.depth # depth
             THEN Raise(indentation_error(line, depth), n.st)
             ELSE IF line.kind # "LIST_ITEM"
             THEN Raise(report("expected list item", line, depth), n.st)
             ELSE LET r == list_item_value(cl, on_dup, n.st, depth, line)
                  IN  IF r.raised THEN r
                      ELSE read_list_loop(cl, on_dup, r.st, depth,
                                          Append(data, r.val))
    ELSE Return(List(data), st)

read_list(cl, on_dup, st, depth) == read_list_loop(cl, on_dup, st, depth, <<>>)

\* "key in data" for the dict under construction
HasKey(data, key) == \E i \in 1..Len(data.k) : data.k[i] = key

\* A data[key] = value that moves an existing key to the end of the dict.
SetItemAtEnd(data, key, value) ==
    LET keep == {i \in 1..Len(data.k) : data.k[i] # key}
        pick[n \in 0..Len(data.k)] ==
            IF n = 0 THEN <<>>
            ELSE IF n \in keep THEN Append(pick[n - 1], n) ELSE pick[n - 1]
        idx == pick[Len(data.k)]
    IN  Dict([i \in 1..Len(idx) |-> data.k[idx[i]]] \o <<key>>,
             [i \in 1..Len(idx) |-> data.v[idx[i]]] \o <<value>>)

\* data[key] = value: a new key is appended, an existing key keeps its place.
SetItem(data, key, value) ==
    IF HasKey(data, key)
    THEN Dict(data.k,
              [i \in 1..Len(data.k) |->
                  IF data.k[i] = key THEN value ELSE data.v[i]])
    ELSE Dict(Append(data.k, key), Append(data.v, value))

\* data[key]
GetItem(data, key) == data.v[CHOOSE i \in 1..Len(data.k) : data.k[i] = key]

\* A store_item that skips a recurring key under the policy error as it does
\* under use-first.
store_item_error_skips(data, key, value, on_dup, line, depth, st) ==
    IF HasKey(data, key) /\ on_dup # USE_LAST
    THEN Return(data, st)
    ELSE Return(SetItem(data, key, value), st)

\* A store_item that overwrites under every policy: never a `duplicate key`
\* error, never a `continue`.
store_item_overwrite(data, key, value, on_dup, line, depth, st) ==
    Return(SetItem(data, key, value), st)

\* _read_object lines 303-311: store the entry under the duplicate policy.
\* val is the dict after the iteration.
store_item(data, key, value, on_dup, line, depth, st) ==
    IF HasKey(data, key)
    THEN IF on_dup = USE_FIRST
         THEN Return(data, st)
         ELSE IF on_dup = USE_LAST
         THEN Return(SetItem(data, key, value), st)
         ELSE IF on_dup = ERROR
         THEN Raise(report("duplicate key", line, depth), st)
         ELSE Return(SetItem(data, key, value), st)
    ELSE Return(SetItem(data, key, value), st)

\* A read_item_key that takes a line of any other kind for an object item
\* with the line's payload as a key and no inline value.
read_item_key_any_kind(cl, st, depth, line) ==
    IF line.kind = "OBJECT_KEY"
    THEN LET r == read_object_key(cl, st, depth)
         IN  [raised |-> r.raised, err |-> r.err, val |-> r.val, st |-> r.st,
              inline |-> None]
    ELSE LET n == next(cl, st)
         IN  IF n.raised
             THEN [raised |-> TRUE, err |-> n.err, val |-> NoneVal,
                   st |-> n.st, inline |-> None]
             ELSE [raised |-> FALSE, err |-> NoError,
                   val |-> Str(IF line.kind = "OBJECT_ITEM" THEN line.key
                               ELSE line.value.s),
                   st |-> n.st,
                   inline |-> IF line.kind = "OBJECT_ITEM" THEN line.value
                              ELSE None]

\* _read_object lines 278-285: the key and inline value of the entry that
\* starts at the line `line` (cl[peek_next(st)]).  val is Str(key), and
\* inline the inline value.
read_item_key(cl, st, depth, line) ==
    IF line.kind = "OBJECT_ITEM"
    THEN LET n == next(cl, st)
         IN  IF n.raised
             THEN [raised |-> TRUE, err |-> n.err, val |-> NoneVal,
                   st |-> n.st, inline |-> None]
             ELSE [raised |-> FALSE, err |-> NoError, val |-> Str(line.key),
                   st |-> n.st, inline |-> line.value]
    ELSE IF line.kind = "OBJECT_KEY"
    THEN LET r == read_object_key(cl, st, depth)
         IN  [raised |-> r.raised, err |-> r.err, val |-> r.val, st |-> r.st,
              inline |-> None]
    ELSE [raised |-> TRUE, err |-> report("expected object item", line, depth),
          val |-> NoneVal, st |-> st, inline |-> None]

\* _Parser._read_object
RECURSIVE read_object_loop(_, _, _, _, _)
read_object_loop(cl, on_dup, st, depth, data) ==
    IF peek_next(st) # 0 /\ cl[peek_next(st)].depth >= depth
    THEN LET line == cl[peek_next(st)]
         IN  IF line.depth # depth
             THEN Raise(indentation_error(line, depth), st)
             ELSE
             LET kr == read_item_key(cl, st, depth, line)
             IN  IF kr.raised THEN Raise(kr.err, kr.st)
                 ELSE
                 LET vr == object_item_value(cl, on_dup, kr.st, depth, line,
                                             kr.inline)
                 IN  IF vr.raised THEN vr
                     ELSE
                     LET sr == store_item(data, kr.val.v, vr.val, on_dup,
                                          line, depth, vr.st)
                     IN  IF sr.raised THEN sr
                         ELSE read_object_loop(cl, on_dup, sr.st, depth,
                                               sr.val)
    ELSE Return(data, st)

read_object(cl, on_dup, st, depth) ==
    read_object_loop(cl, on_dup, st, depth, Dict(<<>>, <<>>))

\* _Parser._read_value
read_value(cl, on_dup, st, depth) ==
    IF peek_next(st) = 0
    THEN Raise(BuiltinError("AttributeError"), st)
    ELSE LET kind == cl[peek_next(st)].kind
         IN  IF kind = "STRING" THEN read_string(cl, st, depth)
             ELSE IF kind = "LIST_ITEM" THEN read_list(cl, on_dup, st, depth)
             ELSE IF kind \in {"OBJECT_ITEM", "OBJECT_KEY"}
             THEN read_object(cl, on_dup, st, depth)
             ELSE IF kind = "INLINE_CONTAINER"
             THEN read_inline_container(cl, st, depth)
             ELSE LET n == next(cl, st)
                  IN  IF n.raised THEN Raise(n.err, n.st)
                      ELSE Raise(report("unrecognized line", cl[n.line], NoneInt),
                                 n.st)

\* A parse without the check for an input without content lines.
parse_no_empty_check(lines, on_dup) ==
    LET cl == read_lines(lines)
        it == LinesIter(cl)
    IN  IF it.raised THEN it
        ELSE read_value(cl, on_dup, it.st, 0)

\* _Parser.parse, for the iterable of raw lines `lines`.
parse(lines, on_dup) ==
    LET cl == read_lines(lines)
        it == LinesIter(cl)
    IN  IF it.raised THEN it
        ELSE IF peek_next(it.st) = 0 THEN Return(NoneVal, it.st)
        ELSE read_value(cl, on_dup, it.st, 0)

\* Iterating io.StringIO(content): the default newline="\n" splits after each
\* "\n" only and keeps the line ends; "\r" is an ordinary character.
RECURSIVE StringIOLines(_)
StringIOLines(content) ==
    IF content = <<>> THEN <<>>
    ELSE IF \E i \in 1..Len(content) : content[i] = "\n"
    THEN LET i == CHOOSE i \in 1..Len(content) :
                      content[i] = "\n" /\ \A j \in 1..(i - 1) : content[j] # "\n"
         IN  <<Take(content, i)>> \o StringIOLines(Drop(content, i))
    ELSE <<content>>

\* loads(content, on_dup=on_dup)
loads(content, on_dup) == parse(StringIOLines(content), on_dup)

\* The line terminators.
LF == <<"\n">>
CR == <<"\r">>
CRLF == <<"\r", "\n">>

\* What load can be handed for fp: the path of a file with the given text,
\* or a text stream open on it (an io.TextIOWrapper).
PathOf(content) == [t |-> "str", content |-> content]
StreamOf(content) == [t |-> "TextIOWrapper", content |-> content]
NoFile == [t |-> "NoneType", content |-> <<>>]

\* What reading a file opened in text mode gives for its text: with the
\* default newline=None the line ends "\r\n" and "\r" become "\n".
RECURSIVE UniversalNewlines(_)
UniversalNewlines(content) ==
    IF content = <<>> THEN <<>>
    ELSE IF StartsWith(content, CRLF)
    THEN LF \o UniversalNewlines(Drop(content, 2))
    ELSE IF StartsWith(content, CR)
    THEN LF \o UniversalNewlines(Drop(content, 1))
    ELSE <<content[1]>> \o UniversalNewlines(Drop(content, 1))

\* load(fp, on_dup=on_dup): open(fp, "r", encoding="utf-8") takes a path and
\* raises TypeError for an object that is none, such as an open stream; the
\* parser iterates over the lines of the opened file.
load(fp, on_dup) ==
    IF fp.t # "str"
    THEN Raise(BuiltinError("TypeError"), [next_line |-> 0, pulled |-> 0])
    ELSE parse(StringIOLines(UniversalNewlines(fp.content)), on_dup)

\* dumps(obj): "raise NotImplementedError"
dumps(obj) ==
    [raised |-> TRUE, err |-> BuiltinError("NotImplementedError"),
     val |-> NoneVal]

\* _render_key(s), s a node of a value tree
render_key(s) ==
    IF s.t # "str"
    THEN [raised |-> TRUE,
          err |-> NestedtextError("keys must be strings", NoneInt, NoneInt),
          val |-> NoneVal]
    ELSE
    LET stripped == StripSet(s.v, {" "})
    IN  IF Contains(s.v, <<"\n">>)
        THEN [raised |-> TRUE,
              err |-> NestedtextError("keys must not contain newlines",
                                      NoneInt, NoneInt),
              val |-> NoneVal]
        ELSE IF \/ Len(stripped) < Len(s.v)
                \/ Take(s.v, 1) \in {<<"#">>, <<"'">>, <<"\"">>}
                \/ StartsWith(s.v, <<"-", " ">>)
                \/ StartsWith(s.v, <<">", " ">>)
                \/ Contains(s.v, <<":", " ">>)
        THEN [raised |-> TRUE,
              err |-> NestedtextError("cannot disambiguate key",
                                      NoneInt, NoneInt),
              val |-> NoneVal]
        ELSE [raised |-> FALSE, err |-> NoError, val |-> s]

\* s.split("\n"): the pieces of s between its newlines, at least one.
RECURSIVE SplitLines(_)
SplitLines(s) ==
    IF \A i \in 1..Len(s) : s[i] # "\n" THEN <<s>>
    ELSE LET i == CHOOSE k \in 1..Len(s) :
                      s[k] = "\n" /\ \A j \in 1..(k - 1) : s[j] # "\n"
         IN  <<Take(s, i - 1)>> \o SplitLines(Drop(s, i))

\* "\n".join(parts)
RECURSIVE JoinLines(_)
JoinLines(parts) ==
    IF Len(parts) <= 1 THEN Join(parts)
    ELSE Head(parts) \o <<"\n">> \o JoinLines(Tail(parts))

\* _add_leader(s, leader)
add_leader(s, leader) ==
    LET lines == SplitLines(s)
    IN  JoinLines([i \in 1..Len(lines) |->
                     IF lines[i] # <<>> THEN leader \o lines[i]
                     ELSE RStripSet(leader, Whitespace)])

\* An _add_prefix that always puts a space behind the prefix.
add_prefix_always_space(prefix, suffix) == prefix \o <<" ">> \o suffix

\* _add_prefix(prefix, suffix)
add_prefix(prefix, suffix) ==
    IF suffix = <<>> \/ StartsWith(suffix, <<"\n">>)
    THEN prefix \o suffix
    ELSE prefix \o <<" ">> \o suffix

(***************************************************************************)
(* The calls.  A caller holds a document (its lines, each an indentation   *)
(* and a body, and the line terminator it is written with) or a value      *)
(* tree, calls one entry point with it, and gets a value or an exception.  *)
(***************************************************************************)
VARIABLES
    pc,       \* "idle" before the call, "returned" after it
    op,       \* the entry point called: "parse", "loads" or "dumps"
    doc,      \* the document: a sequence of [ind, body]
    nl,       \* the line terminator of the document
    on_dup,   \* the on_dup argument
    obj,      \* the obj argument of dumps, the s argument of _render_key
    fp,       \* the fp argument of load
    args,     \* the arguments of _add_prefix or of _add_leader
    it,       \* the _LinesIter object the caller holds
    yielded,  \* the lines next() has returned so far, oldest first
    result    \* what the call returned or raised

vars == <<pc, op, doc, nl, on_dup, obj, fp, args, it, yielded, result>>

\* No _LinesIter object yet.  Of an object, next_line and pulled are the
\* stream state; failed records that a call on it has raised `invalid line`.
NoStream == [made |-> FALSE, next_line |-> 0, pulled |-> 0, failed |-> FALSE]

\* " " * n
Spaces(n) == [i \in 1..n |-> " "]

\* The text of the lines of document d when written with terminator t.
RawLines(d, t) == [i \in 1..Len(d) |-> Spaces(d[i].ind) \o d[i].body \o t]

\* The text of the whole document.
Content(d, t) == Join(RawLines(d, t))

\* What the caller sees of a call: no stream state.
Outcome(r) == [raised |-> r.raised, err |-> r.err, val |-> r.val]

NoResult == [raised |-> FALSE, err |-> NoError, val |-> NoneVal]

\* The documents of at most n lines over the set of lines ls.
Docs(ls, n) == UNION {[1..k -> ls] : k \in 0..n}

\* The lines with a body of bs and an indentation of is.
LinesOf(is, bs) == {[ind |-> i, body |-> b] : i \in is, b \in bs}

\* _Parser(on_dup=on_dup).parse(lines) on the lines of the document
CallParse ==
    /\ pc = "idle"
    /\ pc' = "returned"
    /\ op' = "parse"
    /\ result' = Outcome(parse(RawLines(doc, nl), on_dup))
    /\ UNCHANGED <<doc, nl, on_dup, obj, fp, args, it, yielded>>

\* loads(content, on_dup=on_dup) on the text of the document
CallLoads ==
    /\ pc = "idle"
    /\ pc' = "returned"
    /\ op' = "loads"
    /\ result' = Outcome(loads(Content(doc, nl), on_dup))
    /\ UNCHANGED <<doc, nl, on_dup, obj, fp, args, it, yielded>>

\* The generator _LinesIter._read_lines run to its end over the lines of the
\* document: the classified lines it yields.
CallReadLines ==
    /\ pc = "idle"
    /\ pc' = "returned"
    /\ op' = "_read_lines"
    /\ result' = [raised |-> FALSE, err |-> NoError,
                  val |-> read_lines(RawLines(doc, nl))]
    /\ UNCHANGED <<doc, nl, on_dup, obj, fp, args, it, yielded>>

\* load(fp, on_dup=on_dup)
CallLoad ==
    /\ pc = "idle"
    /\ pc' = "returned"
    /\ op' = "load"
    /\ result' = Outcome(load(fp, on_dup))
    /\ UNCHANGED <<doc, nl, on_dup, obj, fp, args, it, yielded>>

\* dumps(obj)
CallDumps ==
    /\ pc = "idle"
    /\ pc' = "returned"
    /\ op' = "dumps"
    /\ result' = dumps(obj)
    /\ UNCHANGED <<doc, nl, on_dup, obj, fp, args, it, yielded>>

\* _render_key(obj)
CallRenderKey ==
    /\ pc = "idle"
    /\ pc' = "returned"
    /\ op' = "_render_key"
    /\ result' = render_key(obj)
    /\ UNCHANGED <<doc, nl, on_dup, obj, fp, args, it, yielded>>

\* _LinesIter(lines) on the lines of the document.  When __init__ raises
\* the caller gets no object.
CallLinesIter ==
    /\ pc = "idle"
    /\ LET r == LinesIter(read_lines(RawLines(doc, nl)))
       IN  /\ pc' = IF r.raised THEN "returned" ELSE "iterating"
           /\ it' = IF r.raised THEN NoStream
                    ELSE [made |-> TRUE, next_line |-> r.st.next_line,
                          pulled |-> r.st.pulled, failed |-> FALSE]
           /\ result' = [raised |-> r.raised, err |-> r.err, val |-> NoneVal]
    /\ op' = "_LinesIter"
    /\ UNCHANGED <<doc, nl, on_dup, obj, fp, args, yielded>>

\* it.peek_next(): the lookahead line, or None.
CallPeekNext ==
    /\ pc = "iterating"
    /\ op' = "peek_next"
    /\ result' = [raised |-> FALSE, err |-> NoError,
                  val |-> IF peek_next(it) = 0 THEN NoneVal
                          ELSE read_lines(RawLines(doc, nl))[peek_next(it)]]
    /\ UNCHANGED <<pc, doc, nl, on_dup, obj, fp, args, it, yielded>>

\* next(it).  When the advance raises, _next_line has not been assigned and
\* keeps the line this call was about to return, while the generator has
\* moved on past the invalid line.
CallNext ==
    /\ pc = "iterating"
    /\ op' = "next"
    /\ LET cl == read_lines(RawLines(doc, nl))
           n == next(cl, it)
       IN  /\ result' = [raised |-> n.raised, err |-> n.err,
                         val |-> IF n.raised THEN NoneVal ELSE cl[n.line]]
           /\ it' = IF ~n.raised
                    THEN [it EXCEPT !.next_line = n.st.next_line,
                                    !.pulled = n.st.pulled]
                    ELSE IF n.err.exc = "StopIteration" THEN it
                    ELSE [it EXCEPT !.pulled = n.st.pulled, !.failed = TRUE]
           /\ yielded' = IF n.raised THEN yielded
                         ELSE Append(yielded, cl[n.line])
    /\ UNCHANGED <<pc, doc, nl, on_dup, obj, fp, args>>

\* _add_prefix(prefix, suffix) on the two arguments
CallAddPrefix ==
    /\ pc = "idle"
    /\ pc' = "returned"
    /\ op' = "_add_prefix"
    /\ result' = [raised |-> FALSE, err |-> NoError,
                  val |-> Str(add_prefix(args[1], args[2]))]
    /\ UNCHANGED <<doc, nl, on_dup, obj, fp, args, it, yielded>>

\* _add_leader(s, leader) on the two arguments
CallAddLeader ==
    /\ pc = "idle"
    /\ pc' = "returned"
    /\ op' = "_add_leader"
    /\ result' = [raised |-> FALSE, err |-> NoError,
                  val |-> Str(add_leader(args[1], args[2]))]
    /\ UNCHANGED <<doc, nl, on_dup, obj, fp, args, it, yielded>>

\* Before the call, for a caller holding a document of the set ds.
InitDoc(ds, ts, ps) ==
    /\ pc = "idle"
    /\ op = "none"
    /\ doc \in ds
    /\ nl \in ts
    /\ on_dup \in ps
    /\ obj = NoneVal
    /\ fp = NoFile
    /\ args = <<>>
    /\ it = NoStream
    /\ yielded = <<>>
    /\ result = NoResult

(***************************************************************************)
(* Serializing: a caller holding a value tree calls dumps.                 *)
(***************************************************************************)

\* The longest list and the largest mapping of the value trees.
MaxElems == 2

\* The sequences of at most n elements of the set xs.
SeqsUpTo(xs, n) == UNION {[1..k -> xs] : k \in 0..n}

Distinct(xs) == \A i, j \in 1..Len(xs) : i # j => xs[i] # xs[j]

\* Strings, one of them empty and one of two lines; keys have no newline.
LeafStrings == {<<>>, <<"a">>, <<"a", "\n", "b">>}
KeyStrings == {<<"a">>, <<"b">>}

\* The elements of the containers: strings and small containers.
ElemTrees ==
    {Str(x) : x \in LeafStrings}
        \cup {List(<<Str(<<"a">>)>>), Dict(<<<<"a">>>>, <<Str(<<"b">>)>>)}

ValueTrees ==
    {Str(x) : x \in LeafStrings}
        \cup {List(xs) : xs \in SeqsUpTo(ElemTrees, MaxElems)}
        \cup UNION {{Dict(ks, vs) : vs \in [1..Len(ks) -> ElemTrees]} :
                      ks \in {q \in SeqsUpTo(KeyStrings, MaxElems) : Distinct(q)}}

InitDumps ==
    /\ pc = "idle"
    /\ op = "none"
    /\ doc = <<>>
    /\ nl = LF
    /\ on_dup = ERROR
    /\ obj \in ValueTrees
    /\ fp = NoFile
    /\ args = <<>>
    /\ it = NoStream
    /\ yielded = <<>>
    /\ result = NoResult

SpecDumps == InitDumps /\ [][CallDumps]_vars

\* C1: round trip.  For every value tree v of strings, lists and mappings
\* with newline-free string keys, dumps(v) returns a text and loads of that
\* text returns a value equal to v.
RoundTrip ==
    (pc = "returned" /\ op = "dumps") =>
        /\ ~result.raised
        /\ result.val.t = "str"
        /\ Outcome(loads(result.val.v, ERROR)) =
               [raised |-> FALSE, err |-> NoError, val |-> obj]

(***************************************************************************)
(* What a document says, read off its classified lines without the         *)
(* parser: the entries of its mappings, the items of its root container    *)
(* and the block of lines below each of them.                              *)
(***************************************************************************)

\* The longest document, in lines.
MaxLines == 4

\* The lines of the document of the state, and their classification.
Lines == RawLines(doc, nl)
Classified == read_lines(Lines)

\* Line i of cl is neither blank nor a comment.
IsContent(cl, i) == ~is_ignorable(cl[i].kind)

ContentLines(cl) == {i \in 1..Len(cl) : IsContent(cl, i)}

Min(xs) == CHOOSE x \in xs : \A y \in xs : x <= y
Max(xs) == CHOOSE x \in xs : \A y \in xs : x >= y

\* The content line before / after line i, 0 if there is none.
PrevContent(cl, i) ==
    LET before == {j \in ContentLines(cl) : j < i}
    IN  IF before = {} THEN 0 ELSE Max(before)
NextContent(cl, i) ==
    LET after == {j \in ContentLines(cl) : j > i}
    IN  IF after = {} THEN 0 ELSE Min(after)

\* The kind of the first content line, "" for a document without one.
RootKind(cl) ==
    IF ContentLines(cl) = {} THEN "" ELSE cl[Min(ContentLines(cl))].kind

\* Line i is a key fragment that continues the multiline key of the
\* content line before it.
ContinuesKey(cl, i) ==
    /\ cl[i].kind = "OBJECT_KEY"
    /\ PrevContent(cl, i) # 0
    /\ cl[PrevContent(cl, i)].kind = "OBJECT_KEY"
    /\ cl[PrevContent(cl, i)].depth = cl[i].depth

\* Line i starts an entry of a mapping: an object item, or the first
\* fragment of a multiline key.
IsEntryStart(cl, i) ==
    /\ IsContent(cl, i)
    /\ cl[i].kind \in {"OBJECT_ITEM", "OBJECT_KEY"}
    /\ ~ContinuesKey(cl, i)

\* The last line of the key of the entry that starts at line i.
RECURSIVE KeyEnd(_, _)
KeyEnd(cl, i) ==
    LET j == NextContent(cl, i)
    IN  IF j # 0 /\ ContinuesKey(cl, j) THEN KeyEnd(cl, j) ELSE i

\* The payloads of the key fragments from line i on.
RECURSIVE KeyFragments(_, _)
KeyFragments(cl, i) ==
    LET j == NextContent(cl, i)
    IN  <<cl[i].value.s>> \o
            (IF j # 0 /\ ContinuesKey(cl, j) THEN KeyFragments(cl, j) ELSE <<>>)

\* The key of the entry that starts at line i: the key of an object item,
\* or the fragments of a multiline key without the last line terminator.
EntryKey(cl, i) ==
    IF cl[i].kind = "OBJECT_ITEM" THEN cl[i].key
    ELSE LET fs == KeyFragments(cl, i)
         IN  Join(SubSeq(fs, 1, Len(fs) - 1))
                 \o RStripSet(fs[Len(fs)], EolChars)

\* Lines i < j start two entries of one mapping with the same key: both at
\* one depth with no shallower content line between them.
SameMappingSameKey(cl, i, j) ==
    /\ i < j
    /\ IsEntryStart(cl, i) /\ IsEntryStart(cl, j)
    /\ cl[i].depth = cl[j].depth
    /\ \A m \in ContentLines(cl) : (i < m /\ m < j) => cl[m].depth >= cl[i].depth
    /\ EntryKey(cl, i) = EntryKey(cl, j)

\* The lines at which a key of a mapping occurs again.
RecurrenceLines(cl) ==
    {j \in 1..Len(cl) : \E i \in 1..Len(cl) : SameMappingSameKey(cl, i, j)}

\* The content lines at depth 0, in order: the lines of the root container.
RootLines(cl) == {i \in ContentLines(cl) : cl[i].depth = 0}

\* The lines below the item or entry whose own lines end at line e: those
\* up to the next content line at depth 0.
BlockEnd(cl, e) ==
    LET after == {j \in RootLines(cl) : j > e}
    IN  IF after = {} THEN Len(cl) ELSE Min(after) - 1

\* The lines ls with the first d spaces of indentation removed.
Dedent(ls, d) ==
    [i \in 1..Len(ls) |->
        LET n == LeadIn(ls[i], {" "})
        IN  Drop(ls[i], IF n < d THEN n ELSE d)]

\* The value the document gives an item or entry whose own lines end at
\* line e: its inline text if it has one (has_inline); or else the empty
\* string when no content line follows before the next line at depth 0; or
\* else the value of the block below it, read as a document of its own.
ItemValue(ls, cl, e, has_inline, inline, policy) ==
    IF has_inline THEN Str(inline.s)
    ELSE LET j == NextContent(cl, e)
         IN  IF j = 0 \/ j > BlockEnd(cl, e) THEN Str(<<>>)
             ELSE parse(Dedent(SubSeq(ls, e + 1, BlockEnd(cl, e)),
                               cl[j].depth), policy).val

\* The value of the root mapping's entry that starts at line i; an empty
\* inline text counts as none.
EntryValue(ls, cl, i, policy) ==
    ItemValue(ls, cl, KeyEnd(cl, i),
              cl[i].kind = "OBJECT_ITEM" /\ Truthy(cl[i].value),
              cl[i].value, policy)

\* The lines that start the entries of the root mapping.
RootEntries(cl) == {i \in RootLines(cl) : IsEntryStart(cl, i)}

\* The keys of the entries at the lines es, each once, in the order of the
\* first occurrences.
RECURSIVE KeysInOrder(_, _)
KeysInOrder(cl, es) ==
    IF es = {} THEN <<>>
    ELSE LET i == Min(es)
         IN  <<EntryKey(cl, i)>> \o
                 KeysInOrder(cl, {j \in es : EntryKey(cl, j) # EntryKey(cl, i)})

(***************************************************************************)
(* Mappings with recurring keys                                            *)
(***************************************************************************)
DupBodies ==
    {<<"a", ":", " ", "1">>, <<"a", ":", " ", "2">>, <<"b", ":", " ", "1">>,
     <<"a", ":">>, <<":", " ", "a">>}

InitDup ==
    InitDoc(Docs(LinesOf({0, 1}, DupBodies), MaxLines), {LF},
            DuplicateFieldBehaviour)

SpecDup == InitDup /\ [][CallParse]_vars

\* The document is well formed but for recurring keys: its root is a list
\* or a mapping and the parser reads it to the end when it tolerates
\* recurring keys.
WellFormedContainer ==
    /\ RootKind(Classified) \in {"LIST_ITEM", "OBJECT_ITEM", "OBJECT_KEY"}
    /\ ~parse(Lines, USE_LAST).raised

IsDuplicateKeyError(r) ==
    /\ r.raised
    /\ r.err.exc = "NestedtextError"
    /\ r.err.msg = "duplicate key"

\* C2: under the policy error, parsing a document with a mapping in which a
\* key occurs a second time raises `duplicate key` and returns no value; the
\* error's lineno is the line of the key of a second occurrence (the first
\* line of a multiline key), its colno the mapping's depth, and in a flat
\* mapping it is the first line at which a key recurs.  A `duplicate key`
\* error is raised for no other line.
DuplicateKeyError ==
    (pc = "returned" /\ op = "parse" /\ on_dup = ERROR) =>
        LET recur == RecurrenceLines(Classified)
        IN  /\ (WellFormedContainer /\ recur # {}) =>
                  /\ IsDuplicateKeyError(result)
                  /\ result.val = NoneVal
            /\ IsDuplicateKeyError(result) =>
                  /\ result.err.lineno \in recur
                  /\ result.err.colno = Classified[result.err.lineno].depth
                  /\ (\A i \in ContentLines(Classified) :
                          Classified[i].depth = 0) =>
                        result.err.lineno = Min(recur)

\* A second occurrence that is a multiline key with a nested value: the
\* error is raised for the key's line, not for the last line read.
DuplicateKeyErrorWitness ==
    /\ pc = "returned" /\ op = "parse" /\ on_dup = ERROR
    /\ IsDuplicateKeyError(result)
    /\ \E i \in 1..Len(Classified) :
          /\ Classified[i].kind = "OBJECT_KEY"
          /\ result.err.lineno = i
          /\ i < Len(Classified)

\* The policy use-first or use-last has been applied to a well-formed
\* document whose root is a mapping.
ParsedMapping(policy) ==
    /\ pc = "returned" /\ op = "parse" /\ on_dup = policy
    /\ ~result.raised
    /\ result.val.t = "dict"

\* The first / last entry of the root mapping with the key of entry i.
FirstOccurrence(cl, i) ==
    Min({j \in RootEntries(cl) : EntryKey(cl, j) = EntryKey(cl, i)})
LastOccurrence(cl, i) ==
    Max({j \in RootEntries(cl) : EntryKey(cl, j) = EntryKey(cl, i)})

\* C3: under the policy use-first a recurring key raises no error, and a
\* parsed mapping holds every key of its entries exactly once, with the
\* value of the key's first occurrence.
UseFirstKeepsFirst ==
    /\ (pc = "returned" /\ op = "parse" /\ on_dup = USE_FIRST) =>
          /\ ~IsDuplicateKeyError(result)
          /\ result.raised = parse(Lines, USE_LAST).raised
    /\ ParsedMapping(USE_FIRST) =>
          /\ Distinct(result.val.k)
          /\ \A i \in RootEntries(Classified) :
                /\ HasKey(result.val, EntryKey(Classified, i))
                /\ GetItem(result.val, EntryKey(Classified, i)) =
                       EntryValue(Lines, Classified,
                                  FirstOccurrence(Classified, i), USE_FIRST)

\* A key occurs twice in the root mapping, with different values.
RecurringKeyWith(policy) ==
    /\ ParsedMapping(policy)
    /\ \E i, j \in RootEntries(Classified) :
          /\ SameMappingSameKey(Classified, i, j)
          /\ EntryValue(Lines, Classified, i, policy) #
                 EntryValue(Lines, Classified, j, policy)

UseFirstWitness == RecurringKeyWith(USE_FIRST)

\* C4: under the policy use-last a parsed mapping holds, for every key, the
\* value of the key's last occurrence, and its keys are in the order of
\* their first occurrences.
UseLastKeepsPlace ==
    ParsedMapping(USE_LAST) =>
        /\ result.val.k = KeysInOrder(Classified, RootEntries(Classified))
        /\ \A i \in RootEntries(Classified) :
              /\ HasKey(result.val, EntryKey(Classified, i))
              /\ GetItem(result.val, EntryKey(Classified, i)) =
                     EntryValue(Lines, Classified,
                                LastOccurrence(Classified, i), USE_LAST)

\* A key recurs after another key has been read: overwriting must not move it.
UseLastWitness ==
    /\ RecurringKeyWith(USE_LAST)
    /\ Len(result.val.k) = 2
    /\ \E i, j \in RootEntries(Classified) :
          /\ SameMappingSameKey(Classified, i, j)
          /\ \E m \in RootEntries(Classified) :
                i < m /\ m < j /\ EntryKey(Classified, m) # EntryKey(Classified, i)

(***************************************************************************)
(* Line terminators                                                        *)
(***************************************************************************)
EolBodies ==
    {<<">", " ", "a">>, <<">">>, <<"-", " ", "a">>, <<"a", ":">>,
     <<":", " ", "a">>}

InitEol ==
    InitDoc(Docs(LinesOf({0, 1}, EolBodies), MaxLines), {LF, CR, CRLF}, {ERROR})

SpecEol == InitEol /\ [][CallLoads]_vars

\* C5: line-ending invariance.  loads gives the same outcome for a document
\* whether its lines all end in LF, all in CR or all in CRLF.
LineEndingInvariance ==
    (pc = "returned" /\ op = "loads") =>
        \A t \in {LF, CR, CRLF} :
            Outcome(loads(Content(doc, t), on_dup)) = result

(***************************************************************************)
(* Inline containers and invalid lines                                     *)
(***************************************************************************)
BadBodies ==
    {<<"[", "x", "]">>, <<"{", "x", "}">>, <<"\t", "-">>, <<"x">>, <<"-">>,
     <<"a", ":">>}

InitBad == InitDoc(Docs(LinesOf({0, 1}, BadBodies), MaxLines), {LF}, {ERROR})

SpecBad == InitBad /\ [][CallParse]_vars

\* An inline container line is reached as the root value, or as the nested
\* value of a first item that has no inline value.
ReachesInlineContainer(cl) ==
    LET first == Min(ContentLines(cl))
        second == NextContent(cl, first)
    IN  /\ ContentLines(cl) # {}
        /\ \A i \in 1..Len(cl) : cl[i].cls = "_Line"
        /\ \/ cl[first].kind = "INLINE_CONTAINER"
           \/ /\ cl[first].kind \in {"LIST_ITEM", "OBJECT_ITEM"}
              /\ cl[first].depth = 0
              /\ ~Truthy(cl[first].value)
              /\ second # 0
              /\ cl[second].kind = "INLINE_CONTAINER"
              /\ cl[second].depth > 0

\* C7: a document in which a line that starts with [ or { is reached as a
\* value makes parse raise `unrecognized line`; parse returns nothing.
InlineContainerRejected ==
    (pc = "returned" /\ op = "parse" /\ ReachesInlineContainer(Classified)) =>
        /\ result.raised
        /\ result.err.exc = "NestedtextError"
        /\ result.err.msg = "unrecognized line"

\* C8: when the first line the stream meets that is neither blank nor a
\* comment is invalid, the error raised has the line's lineno and the message
\* `invalid indentation` with the column of the offending character if the
\* indentation holds a non-space character, `unrecognized line` if no rule
\* matched the line.
InvalidLineMessage ==
    (pc = "returned" /\ op = "parse" /\ ContentLines(Classified) # {}) =>
        LET first == Classified[Min(ContentLines(Classified))]
        IN  first.cls = "_InvalidLine" =>
                /\ result.raised
                /\ result.err.exc = "NestedtextError"
                /\ result.err.lineno = first.lineno
                /\ first.kind = "NON_SPACE_INDENT" =>
                      /\ result.err.msg = "invalid indentation"
                      /\ result.err.colno = LeadIn(first.text, {" "})
                /\ first.kind = "UNRECOGNISED" =>
                      result.err.msg = "unrecognized line"

(***************************************************************************)
(* Blank lines and comments                                                *)
(***************************************************************************)

\* The longest document with blank lines and comments, in lines.
MaxIgnLines == 3

\* Blank lines (empty or of spaces) and comments (indented or not).
IgnorableLines ==
    LinesOf({0, 1}, {<<>>, <<"#", "c">>}) \cup LinesOf({0}, {<<"\t", "#">>})

StringLines ==
    LinesOf({0}, {<<">">>, <<">", " ">>}) \cup LinesOf({0, 1}, {<<">", " ", "a">>})

IgnLines ==
    IgnorableLines \cup StringLines \cup LinesOf({0, 1}, {<<"-">>})
        \cup LinesOf({0}, {<<"a", ":">>, <<":", " ", "a">>, <<"x">>})

InitIgn == InitDoc(Docs(IgnLines, MaxIgnLines), {LF, CR, CRLF}, {ERROR})

SpecIgn == InitIgn /\ [][CallParse]_vars

\* The document d with the line l inserted after its first k lines.
InsertAt(d, k, l) == SubSeq(d, 1, k) \o <<l>> \o SubSeq(d, k + 1, Len(d))

\* C6: comment and blank invariance.  A document that parses gives the same
\* value with a blank line or a comment line inserted at any position, also
\* between the fragments of a multiline string or key.
IgnorableInvariance ==
    (pc = "returned" /\ op = "parse" /\ ~result.raised) =>
        \A k \in 0..Len(doc) :
            \A l \in IgnorableLines :
                Outcome(parse(RawLines(InsertAt(doc, k, l), nl), on_dup)) = result

\* A string of two fragments has been parsed: a line can go between them.
IgnorableInvarianceWitness ==
    /\ pc = "returned" /\ op = "parse" /\ ~result.raised
    /\ result.val.t = "str"
    /\ \E i \in 1..(Len(doc) - 1) :
          Classified[i].kind = "STRING" /\ Classified[i + 1].kind = "STRING"

\* C9: empty distinction.  An input without lines, or with blank and comment
\* lines only, parses to the absent value; a document whose only content line
\* is the string fragment `>` or `> ` parses to the empty string, which is
\* not the absent value.
EmptyDistinction ==
    (pc = "returned" /\ op = "parse") =>
        /\ ContentLines(Classified) = {} =>
              result = [raised |-> FALSE, err |-> NoError, val |-> NoneVal]
        /\ (\E i \in 1..Len(doc) :
                /\ ContentLines(Classified) = {i}
                /\ doc[i] \in LinesOf({0}, {<<">">>, <<">", " ">>})) =>
              /\ result = [raised |-> FALSE, err |-> NoError, val |-> Str(<<>>)]
              /\ result.val # NoneVal

\* Both cases with blank and comment lines around.
EmptyDistinctionWitness ==
    /\ pc = "returned" /\ op = "parse" /\ ~result.raised
    /\ Len(doc) >= 3
    /\ \E i \in 1..Len(doc) : Classified[i].kind = "COMMENT"
    /\ \/ ContentLines(Classified) = {} /\ result.val = NoneVal
       \/ Cardinality(ContentLines(Classified)) = 1 /\ result.val = Str(<<>>)

(***************************************************************************)
(* Items without an inline value                                           *)
(***************************************************************************)
ItemBodies ==
    {<<"-", " ", "x">>, <<"-">>, <<"a", ":", " ", "1">>, <<"a", ":">>,
     <<"a", ":", " ">>, <<"b", ":">>, <<">", " ", "x">>}

InitItem == InitDoc(Docs(LinesOf({0, 1}, ItemBodies), MaxLines), {LF}, {ERROR})

SpecItem == InitItem /\ [][CallParse]_vars

\* The n-th smallest element of the set of numbers xs.
RECURSIVE Nth(_, _)
Nth(xs, n) == IF n = 1 THEN Min(xs) ELSE Nth(xs \ {Min(xs)}, n - 1)

\* The items of a parsed root list and the object items of a parsed root
\* mapping have the values the document gives them, where has_inline(o)
\* tells whether the payload o of a line counts as an inline value.
ItemValuesWhere(has_inline(_)) ==
    (pc = "returned" /\ op = "parse" /\ ~result.raised) =>
        LET cl == Classified
        IN  /\ result.val.t = "list" =>
                  /\ Len(result.val.v) = Cardinality(RootLines(cl))
                  /\ \A n \in 1..Len(result.val.v) :
                        LET i == Nth(RootLines(cl), n)
                        IN  result.val.v[n] =
                                ItemValue(Lines, cl, i, has_inline(cl[i].value),
                                          cl[i].value, on_dup)
            /\ result.val.t = "dict" =>
                  \A i \in RootEntries(cl) :
                      cl[i].kind = "OBJECT_ITEM" =>
                          /\ HasKey(result.val, cl[i].key)
                          /\ GetItem(result.val, cl[i].key) =
                                 ItemValue(Lines, cl, i, has_inline(cl[i].value),
                                           cl[i].value, on_dup)

IsPresent(o) == o.some

\* C10 as claimed: the value of a list item or object item is its inline
\* text when that is present (be it empty, as in `a: `); when it is absent
\* the value is the empty string if no content line follows or the next
\* content line is not deeper than the item, and otherwise the value read
\* from the deeper lines below the item.
ItemValuesPresent == ItemValuesWhere(IsPresent)

\* C10, amended: the value of a list item or object item is its inline text
\* when that is present and not empty; when it is absent or empty the value
\* is the empty string if no content line follows or the next content line
\* is not deeper than the item, and otherwise the value read from the deeper
\* lines below the item.
ItemValues == ItemValuesWhere(Truthy)

\* A list whose first item takes the deeper lines below it and whose last
\* item, with no inline value either, is the empty string.
ItemValuesWitness ==
    /\ pc = "returned" /\ op = "parse" /\ ~result.raised
    /\ result.val.t = "list"
    /\ Len(result.val.v) = 2
    /\ result.val.v[1].t \in {"list", "dict"}
    /\ result.val.v[2] = Str(<<>>)
    /\ ~Truthy(Classified[Len(doc)].value)

(***************************************************************************)
(* Multiline keys                                                          *)
(***************************************************************************)
KeyBodies ==
    {<<":", " ", "a">>, <<"a", ":">>, <<"b", ":", " ", "1">>, <<"-", " ", "x">>,
     <<">", " ", "x">>}

InitKey ==
    InitDoc(Docs(LinesOf({0, 1}, KeyBodies), MaxLines), {LF}, {ERROR, USE_FIRST})

SpecKey == InitKey /\ [][CallParse]_vars

\* The entries with a multiline key that no value follows: the next content
\* line after the key is absent or not deeper than the key.
MissingValueKeys(cl) ==
    {i \in 1..Len(cl) :
        /\ IsEntryStart(cl, i)
        /\ cl[i].kind = "OBJECT_KEY"
        /\ LET j == NextContent(cl, KeyEnd(cl, i))
           IN  j = 0 \/ cl[j].depth <= cl[i].depth}

\* The document d with a one-line string value below the key that ends at
\* line e.
WithValueAfter(d, e) ==
    InsertAt(d, e, [ind |-> d[e].ind + 1, body |-> <<">", " ", "x">>])

\* The document d with the object item `z:` in the place of the key lines
\* i..e.
WithBareKey(d, i, e) ==
    SubSeq(d, 1, i - 1) \o <<[ind |-> d[i].ind, body |-> <<"z", ":">>]>>
        \o SubSeq(d, e + 1, Len(d))

IsExpectedValueError(r) ==
    /\ r.raised
    /\ r.err.exc = "NestedtextError"
    /\ r.err.msg = "expected value after multiline object key"

\* C11: a multiline key must be followed by a value at a greater depth.  In
\* a document whose root is a list or a mapping and that parses once a
\* deeper value is put below such a key, parse
\* raises `expected value after multiline object key` and returns nothing
\* when the next content line after the key is absent or not deeper than the
\* key, while the same document with a bare `KEY:` object item in the place
\* of the key parses, the item's value being the empty string.  The error is
\* raised for no other document.
MultilineKeyNeedsValue ==
    (pc = "returned" /\ op = "parse") =>
        LET cl == Classified
            missing == MissingValueKeys(cl)
        IN  /\ IsExpectedValueError(result) =>
                  /\ missing # {}
                  /\ result.val = NoneVal
            /\ \A m \in missing :
                  LET e == KeyEnd(cl, m)
                      bare == parse(RawLines(WithBareKey(doc, m, e), nl), on_dup)
                  IN  (/\ RootKind(cl) # "STRING"
                       /\ ~parse(RawLines(WithValueAfter(doc, e), nl),
                                 on_dup).raised)
                      => /\ IsExpectedValueError(result)
                         /\ ~bare.raised
                         /\ cl[m].depth = 0 =>
                               /\ bare.val.t = "dict"
                               /\ GetItem(bare.val, <<"z">>) = Str(<<>>)

\* A key of two fragments in the root mapping, followed by a line that is
\* not deeper: the error is raised.
MultilineKeyNeedsValueWitness ==
    /\ pc = "returned" /\ op = "parse"
    /\ IsExpectedValueError(result)
    /\ \E m \in MissingValueKeys(Classified) :
          /\ Classified[m].depth = 0
          /\ KeyEnd(Classified, m) > m
          /\ NextContent(Classified, KeyEnd(Classified, m)) # 0
          /\ RootKind(Classified) # "STRING"
          /\ ~parse(RawLines(WithValueAfter(doc, KeyEnd(Classified, m)), nl),
                    on_dup).raised

\* C15: every error a parse call raises is a NestedtextError that carries
\* the 1-based number of the offending line, a line of the input.
ErrorsCarryLineno ==
    (pc = "returned" /\ op = "parse" /\ result.raised) =>
        /\ result.err.exc = "NestedtextError"
        /\ result.err.lineno \in 1..Len(doc)

(***************************************************************************)
(* Multiline strings                                                       *)
(***************************************************************************)
FragmentBodies ==
    {<<">">>, <<">", " ", "a">>, <<">", " ", " ", "b">>, <<">", " ", "c", " ">>}

FragmentLines ==
    LinesOf({0, 1}, FragmentBodies) \cup LinesOf({0}, {<<"-">>, <<"#", "c">>})

InitFragment == InitDoc(Docs(FragmentLines, MaxLines), {LF}, {ERROR})

SpecFragment == InitFragment /\ [][CallParse]_vars

\* The text of a string fragment line: what follows the `> ` of its body.
FragmentText(body) == Drop(body, 2)

\* The texts of the lines is of the document d, in order, with one newline
\* between two of them.
RECURSIVE JoinedTexts(_, _)
JoinedTexts(d, is) ==
    IF is = {} THEN <<>>
    ELSE LET i == Min(is)
         IN  FragmentText(d[i].body) \o
                 (IF is = {i} THEN <<>> ELSE LF \o JoinedTexts(d, is \ {i}))

\* The content lines are string fragments at one depth, below the content
\* lines `above`.
FragmentsBelow(cl, above, depth) ==
    /\ ContentLines(cl) \ above # {}
    /\ \A i \in ContentLines(cl) \ above :
          cl[i].kind = "STRING" /\ cl[i].depth = depth

\* C12: a multiline string is the texts of its consecutive fragments joined
\* by exactly one newline between two fragments, with no newline after the
\* last: as the root value, and as the value of a list item.
StringFragmentsJoined ==
    (pc = "returned" /\ op = "parse") =>
        LET cl == Classified
            first == Min(ContentLines(cl))
        IN  /\ FragmentsBelow(cl, {}, 0) =>
                  result = [raised |-> FALSE, err |-> NoError,
                            val |-> Str(JoinedTexts(doc, ContentLines(cl)))]
            /\ (/\ ContentLines(cl) # {}
                /\ doc[first] = [ind |-> 0, body |-> <<"-">>]
                /\ FragmentsBelow(cl, {first}, 1)) =>
                  result = [raised |-> FALSE, err |-> NoError,
                            val |-> List(<<Str(JoinedTexts(doc,
                                        ContentLines(cl) \ {first}))>>)]

\* A string of three fragments, the second one empty.
StringFragmentsJoinedWitness ==
    /\ pc = "returned" /\ op = "parse" /\ ~result.raised
    /\ result.val = Str(<<"a", "\n", "\n", "c", " ">>)
    /\ Len(doc) = 3

(***************************************************************************)
(* Indentation                                                             *)
(***************************************************************************)
IndentBodies ==
    {<<"-">>, <<"-", " ", "x">>, <<"a", ":">>, <<">", " ", "x">>,
     <<":", " ", "k">>}

InitIndent ==
    InitDoc(Docs(LinesOf({0, 1, 2}, IndentBodies), MaxLines), {LF}, {USE_LAST})

SpecIndent == InitIndent /\ [][CallParse]_vars

\* The nearest content line before line j that is less deep, 0 for none:
\* the line of the container that line j is a child line of.
Parent(cl, j) ==
    LET above == {i \in ContentLines(cl) : i < j /\ cl[i].depth < cl[j].depth}
    IN  IF above = {} THEN 0 ELSE Max(above)

\* The depths of the container readers that are open once line i has been
\* read: that of line i and of the lines it is nested in, and the root's 0.
RECURSIVE OpenDepths(_, _)
OpenDepths(cl, i) ==
    IF i = 0 THEN {0} ELSE {cl[i].depth} \cup OpenDepths(cl, Parent(cl, i))

\* Line i leaves a value pending: an item without inline value, or a key.
Opens(cl, i) ==
    \/ cl[i].kind \in {"LIST_ITEM", "OBJECT_ITEM"} /\ ~Truthy(cl[i].value)
    \/ cl[i].kind = "OBJECT_KEY"

\* The line whose readers can consume line j: the content line before it,
\* or the line that one is nested in if it is a string fragment and line j
\* is not, or an inline container (the reader of a string or of an inline
\* container leaves such a line to the container reader).
ReaderLine(cl, j) ==
    LET i == PrevContent(cl, j)
    IN  IF /\ i # 0
           /\ \/ cl[i].kind = "STRING" /\ cl[j].kind # "STRING"
              \/ cl[i].kind = "INLINE_CONTAINER"
        THEN Parent(cl, i)
        ELSE i

\* The depth of the reader that consumes line j: the deepest open reader
\* that is not deeper than the line.
ConsumerDepth(cl, j) ==
    Max({d \in OpenDepths(cl, ReaderLine(cl, j)) : d <= cl[j].depth})

\* Line j is consumed by a reader of another depth: it is not the first
\* line of a pending value, and no open reader has its depth.
Offending(cl, j) ==
    LET i == PrevContent(cl, j)
    IN  /\ ~(i # 0 /\ Opens(cl, i) /\ cl[j].depth > cl[i].depth)
        /\ cl[j].depth \notin OpenDepths(cl, ReaderLine(cl, j))

OffendingLines(cl) == {j \in ContentLines(cl) : Offending(cl, j)}

IsIndentationError(r) ==
    /\ r.raised
    /\ r.err.exc = "NestedtextError"
    /\ r.err.msg = "invalid indentation"

KindBodies ==
    {<<"-">>, <<"-", " ", "x">>, <<"a", ":">>, <<">", " ", "x">>,
     <<":", " ", "k">>, <<"[", "x", "]">>}

InitKind ==
    InitDoc(Docs(LinesOf({0, 1}, KindBodies), MaxLines), {LF},
            {USE_FIRST, USE_LAST})

SpecKind == InitKind /\ [][CallParse]_vars

\* The first line of the container that line j is a line of: the first of
\* the lines at the depth of j with no less deep line between them and j.
ContainerFirst(cl, j) ==
    Min({k \in ContentLines(cl) :
            /\ k <= j
            /\ cl[k].depth = cl[j].depth
            /\ \A m \in ContentLines(cl) :
                  (k < m /\ m < j) => cl[m].depth >= cl[j].depth})

ObjectKinds == {"OBJECT_ITEM", "OBJECT_KEY"}

\* Line j is at the depth of a list and no list item / at the depth of a
\* mapping and neither an object item nor a key fragment.
WrongInList(cl, j) ==
    cl[ContainerFirst(cl, j)].kind = "LIST_ITEM" /\ cl[j].kind # "LIST_ITEM"
WrongInObject(cl, j) ==
    cl[ContainerFirst(cl, j)].kind \in ObjectKinds /\ cl[j].kind \notin ObjectKinds

WrongKindLines(cl) ==
    {j \in ContentLines(cl) : WrongInList(cl, j) \/ WrongInObject(cl, j)}

IsExpectedItemError(r, message) ==
    /\ r.raised
    /\ r.err.exc = "NestedtextError"
    /\ r.err.msg = message

\* C14: a line at the depth d of the list being read whose kind is not
\* list-item raises `expected list item` at that line, a line at the depth
\* d of the mapping being read whose kind is neither object-item nor
\* key-continuation raises `expected object item` at that line; no value is
\* returned.  The errors are raised for the first such line when nothing
\* before it is wrong (no line at a wrong depth, no multiline key without
\* value), and for no other line.
ExpectedItem ==
    (pc = "returned" /\ op = "parse") =>
        LET cl == Classified
            wrong == WrongKindLines(cl)
        IN  /\ IsExpectedItemError(result, "expected list item") =>
                  /\ result.err.lineno \in ContentLines(cl)
                  /\ WrongInList(cl, result.err.lineno)
            /\ IsExpectedItemError(result, "expected object item") =>
                  /\ result.err.lineno \in ContentLines(cl)
                  /\ WrongInObject(cl, result.err.lineno)
            /\ (/\ wrong # {}
                /\ RootKind(cl) \in {"LIST_ITEM"} \cup ObjectKinds
                /\ \A o \in OffendingLines(cl) : o > Min(wrong)
                /\ \A m \in MissingValueKeys(cl) : m >= Min(wrong)) =>
                  /\ result.raised
                  /\ result.val = NoneVal
                  /\ result.err.exc = "NestedtextError"
                  /\ result.err.lineno = Min(wrong)
                  /\ result.err.colno = cl[Min(wrong)].depth
                  /\ result.err.msg =
                         IF WrongInList(cl, Min(wrong))
                         THEN "expected list item" ELSE "expected object item"

\* A string fragment among the entries of a nested mapping.
ExpectedItemWitness ==
    /\ pc = "returned" /\ op = "parse"
    /\ IsExpectedItemError(result, "expected object item")
    /\ result.err.lineno = 3
    /\ result.err.colno = 1
    /\ Classified[3].kind = "STRING"

\* C18: when parse returns a value every content line of the input has
\* been consumed as part of that value: no line is left in the stream.
AllLinesConsumed ==
    (pc = "returned" /\ op = "parse" /\ ~result.raised) =>
        peek_next(parse(Lines, on_dup).st) = 0

(***************************************************************************)
(* Rendering keys                                                          *)
(***************************************************************************)

\* The longest key, in characters.
MaxKeyLen == 3

KeyChars == {" ", "a", ":", "-", "#", ">", "'", "\"", "\n", "[", "\t"}

\* The keys handed to _render_key: strings, and one object that is none.
InitRender ==
    /\ pc = "idle"
    /\ op = "none"
    /\ doc = <<>>
    /\ nl = LF
    /\ on_dup = ERROR
    /\ obj \in {Str(k) : k \in SeqsUpTo(KeyChars, MaxKeyLen)} \cup {List(<<>>)}
    /\ fp = NoFile
    /\ args = <<>>
    /\ it = NoStream
    /\ yielded = <<>>
    /\ result = NoResult

SpecRender == InitRender /\ [][CallRenderKey]_vars

\* The bare form of the key s is disallowed: a leading or trailing space, a
\* leading #, ' or ", a leading `- `, `> ` or `: `, or a `: ` or a newline
\* anywhere in it.
BareDisallowed(s) ==
    \/ s # <<>> /\ (s[1] = " " \/ s[Len(s)] = " ")
    \/ s # <<>> /\ s[1] \in {"#", "'", "\""}
    \/ StartsWith(s, <<"-", " ">>)
    \/ StartsWith(s, <<">", " ">>)
    \/ StartsWith(s, <<":", " ">>)
    \/ Contains(s, <<":", " ">>)
    \/ Contains(s, <<"\n">>)

\* The multiline-key form of s: one line per newline-separated segment,
\* `: ` and the segment, or `:` alone for an empty segment.
RECURSIVE MultilineKeyForm(_)
MultilineKeyForm(s) ==
    LET n == LeadIn(s, {c \in KeyChars : c # "\n"})
        segment == Take(s, n)
        line == IF segment = <<>> THEN <<":">> ELSE <<":", " ">> \o segment
    IN  IF n = Len(s) THEN line
        ELSE line \o <<"\n">> \o MultilineKeyForm(Drop(s, n + 1))

\* C16: for every string key whose bare form is disallowed _render_key does
\* not raise and returns the multiline-key form of the key.
DisallowedKeyRendered ==
    (pc = "returned" /\ op = "_render_key" /\ obj.t = "str"
        /\ BareDisallowed(obj.v)) =>
        /\ ~result.raised
        /\ result.val = Str(MultilineKeyForm(obj.v))

\* Single-line values: empty, plain, with spaces, with a `: `.
LineValues == {<<>>, <<"v">>, <<" ", "v", " ">>, <<"a", ":", " ", "b">>}

\* read_line gives the line with this text the kind object-item and the
\* key s.
IsObjectItemOf(text, s) ==
    LET line == read_line(text \o LF, 1)
    IN  /\ line.cls = "_Line"
        /\ line.kind = "OBJECT_ITEM"
        /\ line.key = s

\* C19: every key that _render_key returns unchanged is bare-safe: the
\* lines `s:` and `s: v`, for every single-line value v, are classified as
\* object items with the key s.
BareSafe ==
    (pc = "returned" /\ op = "_render_key" /\ ~result.raised) =>
        /\ IsObjectItemOf(result.val.v \o <<":">>, obj.v)
        /\ \A v \in LineValues :
              IsObjectItemOf(result.val.v \o <<":", " ">> \o v, obj.v)

(***************************************************************************)
(* Loading from a file                                                     *)
(***************************************************************************)
LoadBodies == {<<">", " ", "a">>, <<"-", " ", "a">>, <<"a", ":">>}

\* A caller holding a file with the text of a document hands load the
\* file's path or a stream open on the file.
InitLoad ==
    /\ pc = "idle"
    /\ op = "none"
    /\ doc \in Docs(LinesOf({0, 1}, LoadBodies), MaxLines)
    /\ nl \in {LF, CRLF}
    /\ on_dup = ERROR
    /\ obj = NoneVal
    /\ fp \in {PathOf(Content(doc, nl)), StreamOf(Content(doc, nl))}
    /\ args = <<>>
    /\ it = NoStream
    /\ yielded = <<>>
    /\ result = NoResult

SpecLoad == InitLoad /\ [][CallLoad]_vars

\* Two outcomes agree: equal values (or absent in both), or a
\* NestedtextError in both.
Agree(r1, r2) ==
    \/ ~r1.raised /\ ~r2.raised /\ r1.val = r2.val
    \/ /\ r1.raised /\ r2.raised
       /\ r1.err.exc = "NestedtextError" /\ r2.err.exc = "NestedtextError"

\* C17: load given a text stream open on a document and loads given the
\* document's text agree.
LoadAgreesWithLoads ==
    (pc = "returned" /\ op = "load" /\ fp.t = "TextIOWrapper") =>
        Agree(result, Outcome(loads(Content(doc, nl), on_dup)))

(***************************************************************************)
(* Keys of object items                                                    *)
(***************************************************************************)

\* The longest line body, in characters.
MaxBodyLen == 6

BodyChars == {"a", " ", ":", "\t"}

\* One line, indented or not.
InitClassify ==
    InitDoc({<<l>> : l \in LinesOf({0, 1}, SeqsUpTo(BodyChars, MaxBodyLen))},
            {LF, CRLF}, {ERROR})

SpecClassify == InitClassify /\ [][CallReadLines]_vars

\* The first k characters of s are followed by optional whitespace, a `:`
\* and then the end of s or a space.
FollowedByColon(s, k) ==
    \E w \in 0..(Len(s) - k - 1) :
        /\ \A i \in (k + 1)..(k + w) : s[i] \in Whitespace
        /\ s[k + w + 1] = ":"
        /\ k + w + 1 = Len(s) \/ s[k + w + 2] = " "

KeyLengths(s) == {k \in 1..Len(s) : FollowedByColon(s, k)}

\* The content of the line l without its indentation.
StrippedContent(l) == LStripSet(Spaces(l.ind) \o l.body, {" "})

\* C20: the key of a line classified as object-item is the shortest
\* non-empty prefix of the stripped content that is followed by optional
\* whitespace, `:` and then the end of the line or a space; it has no
\* trailing whitespace and does not contain `: `.
ShortestKey ==
    (pc = "returned" /\ op = "_read_lines") =>
        \A i \in 1..Len(doc) :
            result.val[i].kind = "OBJECT_ITEM" =>
                LET s == StrippedContent(doc[i])
                    key == result.val[i].key
                IN  /\ KeyLengths(s) # {}
                    /\ key = Take(s, Min(KeyLengths(s)))
                    /\ key # <<>>
                    /\ key[Len(key)] \notin Whitespace
                    /\ ~Contains(key, <<":", " ">>)

\* A line such as `a: :`, in which three prefixes are followed by a colon:
\* the key is the shortest.
ShortestKeyWitness ==
    /\ pc = "returned" /\ op = "_read_lines"
    /\ result.val[1].kind = "OBJECT_ITEM"
    /\ Cardinality(KeyLengths(StrippedContent(doc[1]))) >= 3
    /\ result.val[1].key = <<"a">>

(***************************************************************************)
(* Payloads of string fragments and key fragments                          *)
(***************************************************************************)

\* What follows the sigil: nothing, or a space and a short text.
SigilBodies ==
    {sigil \o rest :
        sigil \in {<<">">>, <<":">>},
        rest \in {<<>>} \cup {<<" ">> \o u :
                     u \in SeqsUpTo({" ", "a", ":"}, MaxBodyLen - 2)}}

\* One fragment line, with a line terminator or (a last line) without.
InitPayload ==
    InitDoc({<<l>> : l \in LinesOf({0, 1, 2}, SigilBodies)},
            {LF, CR, CRLF, <<>>}, {ERROR})

SpecPayload == InitPayload /\ [][CallReadLines]_vars

\* The text of the body b after the sigil and one optional space.
AfterSigil(b) == IF Len(b) >= 2 /\ b[2] = " " THEN Drop(b, 2) ELSE Drop(b, 1)

\* The fragment lines have the kinds of their sigils and the payloads
\* payload(l), for l a line of the document.
FragmentPayloads(payload(_)) ==
    (pc = "returned" /\ op = "_read_lines") =>
        \A i \in 1..Len(doc) :
            /\ result.val[i].cls = "_Line"
            /\ result.val[i].kind =
                   IF doc[i].body[1] = ">" THEN "STRING" ELSE "OBJECT_KEY"
            /\ result.val[i].depth = doc[i].ind
            /\ result.val[i].value = Some(payload(doc[i]))

PayloadWithoutTerminator(l) == AfterSigil(l.body)
PayloadWithTerminator(l) == AfterSigil(l.body) \o nl

\* C21 as claimed: the payload of a string fragment line or a key fragment
\* line is the text after the sigil and one optional space, up to and
\* excluding the line terminator; further spaces are kept.
PayloadExcludesTerminator == FragmentPayloads(PayloadWithoutTerminator)

\* C21, amended: the payload of a string fragment line or a key fragment
\* line is the text after the sigil and one optional space, up to the end
\* of the line with its line terminator included; further spaces are
\* kept.
PayloadIncludesTerminator == FragmentPayloads(PayloadWithTerminator)

\* A fragment with two spaces after the sigil, on a line that ends in CRLF.
PayloadWitness ==
    /\ pc = "returned" /\ op = "_read_lines"
    /\ result.val[1].kind = "STRING"
    /\ result.val[1].value = Some(<<" ", "a", "\r", "\n">>)

(***************************************************************************)
(* The line stream: a caller makes a _LinesIter over the lines of a        *)
(* document and calls peek_next() and next() on it in any order.           *)
(***************************************************************************)

\* The longest document handed to a line stream.
MaxStreamLines == 3

\* Content lines of every kind the readers loop over, at two depths; a
\* comment, a blank line, and a line that is not recognised.
StreamBodies == {<<"-">>, <<">", " ", "a">>, <<"a", ":">>, <<":", " ", "k">>}
UnrecognisedBody == <<"x">>
StreamLines ==
    LinesOf({0, 1}, StreamBodies)
        \cup LinesOf({0}, {<<>>, <<"#", "c">>, UnrecognisedBody})

InitStream == InitDoc(Docs(StreamLines, MaxStreamLines), {LF}, {ERROR})

SpecStream == InitStream /\ [][CallLinesIter \/ CallPeekNext \/ CallNext]_vars

\* Read off the document: line l is blank or a comment; the raw lines of d
\* that are neither; d has no invalid line.
IsNoise(l) == l.body = <<>> \/ l.body[1] = "#"
ContentOf(d) == {j \in 1..Len(d) : ~IsNoise(d[j])}
AllValid(d) == \A j \in 1..Len(d) : d[j].body # UnrecognisedBody

\* The call just made returned a line.
ReturnedLine ==
    /\ op \in {"peek_next", "next"}
    /\ ~result.raised
    /\ result.val # NoneVal

\* C22: over valid raw lines, the lines next() returns are the raw lines
\* that are neither blank nor comment, in input order, each with its
\* 1-based index among all raw lines as lineno and its number of leading
\* spaces as depth; next() signals the end only after all of them; and no
\* line peek_next() or next() returns is blank or a comment.
StreamYieldsContentLines ==
    (it.made /\ AllValid(doc)) =>
        /\ Len(yielded) <= Cardinality(ContentOf(doc))
        /\ \A k \in 1..Len(yielded) :
               LET j == Nth(ContentOf(doc), k)
               IN  /\ yielded[k].text = RawLines(doc, nl)[j]
                   /\ yielded[k].lineno = j
                   /\ yielded[k].depth = doc[j].ind
        /\ (op = "next" /\ result.raised) =>
               /\ result.err.exc = "StopIteration"
               /\ Len(yielded) = Cardinality(ContentOf(doc))
        /\ ReturnedLine =>
               /\ result.val.kind \notin {"BLANK", "COMMENT"}
               /\ result.val.lineno \in 1..Len(doc)
               /\ ~IsNoise(doc[result.val.lineno])

\* An iteration run to its end over three valid lines, the second a
\* comment, the third indented.
StreamYieldsContentLinesWitness ==
    /\ it.made /\ AllValid(doc)
    /\ op = "next" /\ result.raised
    /\ Len(doc) = 3 /\ IsNoise(doc[2]) /\ doc[2].body # <<>>
    /\ Len(yielded) = 2
    /\ yielded[2].lineno = 3 /\ yielded[2].depth = 1

\* The raw indexes of the lines next() has returned.
YieldedLines == {yielded[k].lineno : k \in 1..Len(yielded)}

\* C23: an invalid line becomes an error only when the stream is advanced
\* to it: making the stream raises nothing, and when next() raises
\* `invalid line` every content line before the invalid line has been
\* returned by next().  (peek_next() raises in no state.)
InvalidLineRaisedWhenReached ==
    /\ op = "_LinesIter" => ~result.raised
    /\ op = "peek_next" => ~result.raised
    /\ (op = "next" /\ result.raised /\ result.err.exc = "NestedtextError") =>
           {j \in ContentOf(doc) : j < result.err.lineno} \subseteq YieldedLines

\* The stream has reached the end of its input: no lookahead line is left.
AtEnd == it.made /\ it.next_line = 0

LastConsumed == IF yielded = <<>> THEN 0 ELSE yielded[Len(yielded)].lineno

\* The first raw line of d after line i that is neither blank nor a
\* comment, 0 if there is none.
FirstContentAfter(d, i) ==
    LET after == {j \in ContentOf(d) : j > i}
    IN  IF after = {} THEN 0 ELSE Min(after)

\* C25: lazy consumption.  In every state of a stream on which no call has
\* raised `invalid line`, the lookahead is the first raw line after the
\* last consumed line that is neither blank nor a comment, and the raw
\* lines pulled from the source are those up to and including the
\* lookahead line; only when there is no such line (end of input) has the
\* whole source been pulled.
LazyConsumption ==
    (it.made /\ ~it.failed) =>
        /\ it.next_line = FirstContentAfter(doc, LastConsumed)
        /\ it.pulled = IF it.next_line # 0 THEN it.next_line ELSE Len(doc)

\* A stream just made over three raw lines, the first a blank line or a
\* comment: the lookahead is the second line, two lines are pulled and the
\* third is not.
LazyConsumptionWitness ==
    /\ it.made /\ ~it.failed
    /\ op = "_LinesIter" /\ yielded = <<>>
    /\ Len(doc) = 3 /\ IsNoise(doc[1])
    /\ it.next_line = 2 /\ it.pulled = 2

(***************************************************************************)
(* The formatting helpers of the serializer: a caller holding two strings  *)
(* calls _add_prefix or _add_leader with them.                             *)
(***************************************************************************)

\* The longest text handed to a formatting helper.
MaxTextLen == 3

\* Texts of several lines, some of them empty or of spaces only; the
\* prefixes of a list item and of an object item; leaders of spaces.
Texts == SeqsUpTo({"x", " ", "\n"}, MaxTextLen)
Prefixes == {<<"-">>, <<"a", ":">>}
Leaders == {Spaces(n) : n \in {0, 2, 4}}

InitFormat ==
    /\ pc = "idle"
    /\ op = "none"
    /\ doc = <<>>
    /\ nl = LF
    /\ on_dup = ERROR
    /\ obj = NoneVal
    /\ fp = NoFile
    /\ args \in (Prefixes \X Texts) \cup (Texts \X Leaders)
    /\ it = NoStream
    /\ yielded = <<>>
    /\ result = NoResult

SpecFormat == InitFormat /\ [][CallAddPrefix \/ CallAddLeader]_vars

\* Position i of s (one past the end included) is the start of a line of s,
\* and that line is empty.
LineStart(s, i) == i = 1 \/ s[i - 1] = "\n"
EmptyLineAt(s, i) == LineStart(s, i) /\ (i = Len(s) + 1 \/ s[i] = "\n")

\* s with the leader put before every line that is not empty and the
\* leader without its trailing whitespace put before every empty line.
WithLeader(s, leader) ==
    Join([i \in 1..(Len(s) + 1) |->
            (IF ~LineStart(s, i) THEN <<>>
             ELSE IF EmptyLineAt(s, i) THEN RStripSet(leader, Whitespace)
             ELSE leader)
            \o (IF i <= Len(s) THEN <<s[i]>> ELSE <<>>)])

\* No line of s ends in a space.
NoTrailingSpace(s) ==
    \A i \in 1..Len(s) : s[i] = " " => (i < Len(s) /\ s[i + 1] # "\n")

\* C26: _add_prefix(prefix, suffix) is prefix immediately followed by
\* suffix when suffix is empty or starts with a newline, so that the prefix
\* is followed by the end of the text or by a newline and not by a space,
\* and is prefix, one space, suffix otherwise; _add_leader(s, leader) puts the leader
\* before every line of s that is not empty and the right-stripped leader
\* before every empty line, so that with a leader of spaces an empty line
\* stays without a trailing space.
FormattingWithoutTrailingSpace ==
    /\ (pc = "returned" /\ op = "_add_prefix") =>
           LET prefix == args[1]
               suffix == args[2]
               no_inline == suffix = <<>> \/ suffix[1] = "\n"
           IN  /\ ~result.raised
               /\ result.val =
                      Str(IF no_inline THEN prefix \o suffix
                          ELSE prefix \o <<" ">> \o suffix)
               /\ no_inline =>
                      /\ Take(result.val.v, Len(prefix)) = prefix
                      /\ \/ Len(result.val.v) = Len(prefix)
                         \/ result.val.v[Len(prefix) + 1] = "\n"
    /\ (pc = "returned" /\ op = "_add_leader") =>
           LET s == args[1]
               leader == args[2]
           IN  /\ ~result.raised
               /\ result.val = Str(WithLeader(s, leader))
               /\ (NoTrailingSpace(s) /\ leader \in Leaders) =>
                      NoTrailingSpace(result.val.v)

\* _add_leader on a text whose second and third lines are empty, with a
\* leader of two spaces.
FormattingWithoutTrailingSpaceWitness ==
    /\ pc = "returned" /\ op = "_add_leader"
    /\ args = <<<<"x", "\n", "\n">>, <<" ", " ">>>>
    /\ result.val = Str(<<" ", " ", "x", "\n", "\n">>)

\* The number of content lines a stream in state st has been advanced
\* past: those before its lookahead line, all of them at the end of input.
Consumed(st) ==
    Cardinality({j \in ContentOf(doc) :
                   st.next_line = 0 \/ j < st.next_line})

\* C27: every iteration of a reader loop consumes a line or raises, so a
\* parse makes no more iterations than there are content lines and
\* terminates.  At every state of a stream with a lookahead line, the
\* state in which a loop guard can hold: a next(), the first statement of
\* an iteration of the list reader, the string reader and the key reader,
\* raises or leaves exactly one content line more consumed; reading the
\* key of an entry, the first statement of an iteration of the mapping
\* reader, raises or leaves at least one more consumed; and reading the
\* value that ends an iteration raises or leaves no fewer consumed.
IterationConsumes ==
    (pc = "iterating" /\ ~it.failed /\ peek_next(it) # 0) =>
        LET cl == read_lines(RawLines(doc, nl))
            line == cl[peek_next(it)]
            n == next(cl, it)
            k == read_item_key(cl, it, line.depth, line)
        IN  /\ n.raised \/ Consumed(n.st) = Consumed(it) + 1
            /\ k.raised \/ Consumed(k.st) >= Consumed(it) + 1
            /\ ~n.raised =>
                   LET r == list_item_value(cl, on_dup, n.st, line.depth, line)
                   IN  r.raised \/ Consumed(r.st) >= Consumed(n.st)
            /\ ~k.raised =>
                   LET r == object_item_value(cl, on_dup, k.st, line.depth,
                                              line, k.inline)
                   IN  r.raised \/ Consumed(r.st) >= Consumed(k.st)

\* A stream whose lookahead is the first of two key fragments with a value
\* below them: reading the key consumes both fragments.
IterationConsumesWitness ==
    /\ pc = "iterating" /\ ~it.failed /\ peek_next(it) = 1
    /\ Len(doc) = 3
    /\ doc[1] = [ind |-> 0, body |-> <<":", " ", "k">>]
    /\ doc[2] = doc[1]
    /\ doc[3] = [ind |-> 1, body |-> <<"-">>]
    /\ LET cl == read_lines(RawLines(doc, nl))
       IN  read_item_key(cl, it, 0, cl[1]).st.next_line = 3

(***************************************************************************)
(* Every kind of line: a caller parses documents of list items, object     *)
(* items, key fragments, string fragments, inline containers, blank lines, *)
(* comments and unrecognised lines.                                        *)
(***************************************************************************)
AnyLines ==
    LinesOf({0, 1}, {<<"-">>, <<"a", ":">>, <<">", " ", "x">>,
                     <<":", " ", "k">>, <<"[", "x", "]">>})
        \cup LinesOf({0}, {<<"-", " ", "x">>, <<"#", "c">>, <<>>,
                           UnrecognisedBody})

InitAny == InitDoc(Docs(AnyLines, MaxLines), {LF}, {ERROR})

SpecAny == InitAny /\ [][CallParse]_vars

\* v is a tree of strings, lists and mappings.
RECURSIVE IsValueTree(_)
IsValueTree(v) ==
    \/ v.t = "str"
    \/ v.t \in {"list", "dict"} /\ \A i \in 1..Len(v.v) : IsValueTree(v.v[i])

\* No line of d is an inline container.
NoInlineContainer(d) ==
    \A j \in 1..Len(d) : d[j].body = <<>> \/ d[j].body[1] \notin {"[", "{"}

====
